---- MODULE Spec2Model ----
(***************************************************************************)
(* Model of the mood renderer core:                                        *)
(*   - AppState, the winit ApplicationHandler (src/src/application.rs)     *)
(*   - CubeTexture (src/client/src/model/cube_texture.rs)                  *)
(* Collaborators that are not part of these files (Renderer, Camera, the   *)
(* window, the graphics device and queue, the image decoder, the platform  *)
(* event loop) appear as the calls made on them and as the values they     *)
(* return, which are chosen nondeterministically.                          *)
(***************************************************************************)
EXTENDS Integers, Sequences, FiniteSets, TLC

(***************************************************************************)
(* Bounds of the model                                                     *)
(***************************************************************************)
\* number of resumes the platform delivers
MaxResumes == 2
\* window widths and heights range over 1..MaxSide
MaxSide == 2
\* physical key codes range over 1..MaxCode
MaxCode == 2
\* mouse deltas range over -MaxDelta..MaxDelta on each axis
MaxDelta == 1

(***************************************************************************)
(* Values exchanged with the collaborators                                 *)
(***************************************************************************)
\* PhysicalKey::Unidentified(_) is modelled as key 0, PhysicalKey::Code(c) as c
Unidentified == 0
KeyCodes == 1..MaxCode
PhysicalKeys == {Unidentified} \cup KeyCodes
\* ElementState::Pressed = 1, ElementState::Released = 0
ElementStates == {0, 1}
Sides == 1..MaxSide
Deltas == (-MaxDelta)..MaxDelta
\* Result<(), wgpu::SurfaceError>
RenderResults == {"Ok", "Lost", "Outdated", "Timeout", "OutOfMemory", "Other"}
\* Renderer::new results
NewResults == {"Ok", "Err"}

\* a call made by the controller: <<operation, first argument, second argument>>
Call(op, a, b) == <<op, a, b>>

None == [present |-> FALSE, id |-> 0]
Some(i) == [present |-> TRUE, id |-> i]

VARIABLES
    renderer,     \* AppState.renderer : Option<Renderer>
    exiting,      \* the event loop's exit flag (ActiveEventLoop::exit was called)
    loopState,    \* what the loop's thread does: "running" (between handlers),
                  \* "initializing" and "built" (inside resumed()), "stopped"
                  \* (the loop returned), "exit1" (process::exit(1)), "panicked"
    winSize,      \* inner size of the renderer's window
    resumes,      \* number of resumed() calls so far
    calls,        \* the calls made by the handler that ran last, in order
    lastEvent,    \* the event handled last and what the collaborators returned
    closeHandled, \* a CloseRequested event was handled with the renderer present
    live          \* the ids of the Renderer instances that exist

appVars == <<renderer, exiting, loopState, winSize, resumes, calls, lastEvent,
             closeHandled, live>>

Event(kind, a, b, result, ret) ==
    [kind |-> kind, present |-> renderer.present, a |-> a, b |-> b,
     result |-> result, ret |-> ret,
     exitingBefore |-> exiting, closedBefore |-> closeHandled,
     rendererBefore |-> renderer, sizeBefore |-> winSize]

AppInit ==
    /\ renderer = None
    /\ exiting = FALSE
    /\ loopState = "running"
    /\ winSize = <<0, 0>>
    /\ resumes = 0
    /\ calls = <<>>
    /\ lastEvent = [kind |-> "Init", present |-> FALSE, a |-> 0, b |-> 0,
                    result |-> "", ret |-> FALSE,
                    exitingBefore |-> FALSE, closedBefore |-> FALSE,
                    rendererBefore |-> None, sizeBefore |-> <<0, 0>>]
    /\ closeHandled = FALSE
    /\ live = {}

(***************************************************************************)
(* AppState::resumed                                                       *)
(***************************************************************************)
\* variant: an initialization that is awaited by yielding to the event loop
DeliversDuringInit(ls) == ls \in {"running", "initializing"}

\* The loop calls a handler only when none is on its thread:
\* pollster::block_on keeps resumed() there until Renderer::new resolves
Delivers(ls) == ls = "running"

\* what resumed() stores after Renderer::new returned Ok
ResumedRenderer(newId) == Some(newId)

\* the steps resumed() takes when Renderer::new returns Ok, on window win
ResumedOkCalls(win) ==
    << Call("create_window", win, 0), Call("Renderer::new", win, 0),
       Call("store_renderer", win, 0), Call("request_redraw", win, 0) >>

\* variant: an initialization failure that is logged and survived
InitFailureStateContinue == "running"

\* Err(e) => { error!("{e}"); std::process::exit(1); }
InitFailureState == "exit1"

\* resumed() is entered: create_window(..).unwrap(), then Renderer::new is
\* started on the new window and block_on waits for it
ResumedBegin ==
    /\ loopState = "running"
    /\ resumes < MaxResumes
    /\ resumes' = resumes + 1
    /\ \E windowOk \in BOOLEAN :
         IF windowOk
         THEN /\ loopState' = "initializing"
              /\ calls' = SubSeq(ResumedOkCalls(resumes'), 1, 2)
              /\ lastEvent' = Event("Resumed", resumes', 0, "", FALSE)
         ELSE \* the unwrap() panics
              /\ loopState' = "panicked"
              /\ calls' = SubSeq(ResumedOkCalls(resumes'), 1, 1)
              /\ lastEvent' = Event("Resumed", resumes', 0, "WindowErr", FALSE)
    /\ UNCHANGED <<renderer, live, exiting, winSize, closeHandled>>

\* Renderer::new resolves: with a new Renderer, which exists beside the one
\* self.renderer still holds, or with an error
ResumedInit ==
    /\ loopState = "initializing"
    /\ \E res \in NewResults :
         /\ lastEvent' = [lastEvent EXCEPT !.result = res]
         /\ IF res = "Ok"
            THEN /\ loopState' = "built"
                 /\ live' = live \cup {resumes}
                 /\ UNCHANGED calls
            ELSE /\ loopState' = InitFailureState
                 /\ calls' = calls \o << Call("log_error", 0, 0),
                                         Call("process_exit", 1, 0) >>
                 /\ UNCHANGED live
    /\ UNCHANGED <<renderer, exiting, winSize, resumes, closeHandled>>

\* self.renderer = Some(r) drops the Renderer held before; then
\* window.request_redraw() and resumed() returns
ResumedStore ==
    /\ loopState = "built"
    /\ renderer' = ResumedRenderer(resumes)
    /\ live' = (live \ {renderer.id}) \cup {resumes}
    /\ \E w \in Sides, h \in Sides : winSize' = <<w, h>>
    /\ calls' = ResumedOkCalls(resumes)
    /\ loopState' = "running"
    /\ UNCHANGED <<exiting, resumes, lastEvent, closeHandled>>

Resumed ==
    \/ ResumedBegin
    \/ ResumedInit
    \/ ResumedStore

\* variant: a suspended() that drops the renderer
RendererAfterSuspendDropped(r) == None

\* what a suspend leaves in self.renderer
RendererAfterSuspend(r) == r

\* AppState has no suspended() of its own: the trait's default does nothing
Suspended ==
    /\ Delivers(loopState)
    /\ calls' = <<>>
    /\ lastEvent' = Event("Suspended", 0, 0, "", FALSE)
    /\ renderer' = RendererAfterSuspend(renderer)
    /\ UNCHANGED <<live, exiting, loopState, winSize, resumes, closeHandled>>

(***************************************************************************)
(* AppState::window_event                                                  *)
(***************************************************************************)
\* variant: the handlers without the let-else guard
HandlesEventsAlways(r) == TRUE

\* let Some(renderer) = &mut self.renderer else { return; }
HandlesEvents(r) == r.present

\* WindowEvent::CloseRequested
CloseCalls == << Call("exit", 0, 0) >>

CloseRequested ==
    /\ Delivers(loopState)
    /\ lastEvent' = Event("CloseRequested", 0, 0, "", FALSE)
    /\ IF HandlesEvents(renderer)
       THEN /\ calls' = CloseCalls
            /\ exiting' = TRUE
            /\ closeHandled' = TRUE
       ELSE /\ calls' = <<>>
            /\ UNCHANGED <<exiting, closeHandled>>
    /\ UNCHANGED <<renderer, live, loopState, winSize, resumes>>

\* variant: resize with the size the window had when the handler was entered
RedrawCallsStaleSize(result, sizeBefore, sizeAfter) ==
    << Call("update", 0, 0), Call("render", 0, 0) >> \o
    ( IF result = "Ok" THEN <<>>
      ELSE IF result \in {"Lost", "Outdated"}
           THEN << Call("resize", sizeBefore[1], sizeBefore[2]) >>
           ELSE << Call("log_error", 0, 0) >> )

\* variant: every render error rebuilds the surface
RedrawCallsResizeOnAnyError(result, sizeBefore, sizeAfter) ==
    << Call("update", 0, 0), Call("render", 0, 0) >> \o
    ( IF result = "Ok" THEN <<>>
      ELSE << Call("resize", sizeAfter[1], sizeAfter[2]) >> )

\* variant: render() before update()
RedrawCallsRenderFirst(result, sizeBefore, sizeAfter) ==
    << Call("render", 0, 0), Call("update", 0, 0) >> \o
    ( IF result = "Ok" THEN <<>>
      ELSE IF result \in {"Lost", "Outdated"}
           THEN << Call("resize", sizeAfter[1], sizeAfter[2]) >>
           ELSE << Call("log_error", 0, 0) >> )

\* variant: a continuous loop, which asks for the next frame after a good one
RedrawCallsRerequest(result, sizeBefore, sizeAfter) ==
    << Call("update", 0, 0), Call("render", 0, 0) >> \o
    ( IF result = "Ok" THEN << Call("request_redraw", 0, 0) >>
      ELSE IF result \in {"Lost", "Outdated"}
           THEN << Call("resize", sizeAfter[1], sizeAfter[2]) >>
           ELSE << Call("log_error", 0, 0) >> )

\* the match on renderer.render(): sizeBefore is the window size when the
\* handler was entered, sizeAfter the size inner_size() returns after render()
RedrawCalls(result, sizeBefore, sizeAfter) ==
    << Call("update", 0, 0), Call("render", 0, 0) >> \o
    ( IF result = "Ok" THEN <<>>
      ELSE IF result \in {"Lost", "Outdated"}
           THEN << Call("resize", sizeAfter[1], sizeAfter[2]) >>
           ELSE << Call("log_error", 0, 0) >> )

\* WindowEvent::RedrawRequested; the platform may change the window's size
\* while update() and render() run
RedrawRequested ==
    /\ Delivers(loopState)
    /\ \E result \in RenderResults, w \in Sides, h \in Sides :
         /\ lastEvent' = Event("RedrawRequested", 0, 0, result, FALSE)
         /\ IF HandlesEvents(renderer)
            THEN /\ winSize' = <<w, h>>
                 /\ calls' = RedrawCalls(result, winSize, winSize')
            ELSE /\ calls' = <<>>
                 /\ UNCHANGED winSize
    /\ UNCHANGED <<renderer, live, exiting, loopState, resumes, closeHandled>>

\* variant: the redraw is requested whatever the camera returns
KeyboardCallsAlwaysRedraw(key, state, ret, win) ==
    IF key = Unidentified THEN <<>>
    ELSE << Call("handle_key_held", key, state), Call("request_redraw", win, 0) >>

\* the KeyboardInput arm matches only PhysicalKey::Code(code); the redraw is
\* requested on the renderer's window, win
KeyboardCalls(key, state, ret, win) ==
    IF key = Unidentified THEN <<>>
    ELSE << Call("handle_key_held", key, state) >> \o
         ( IF ret THEN << Call("request_redraw", win, 0) >> ELSE <<>> )

\* WindowEvent::KeyboardInput; the camera gets the event loop and may call
\* exit() on it (camExit), and returns whether a redraw is wanted (ret)
KeyboardInput ==
    /\ Delivers(loopState)
    /\ \E key \in PhysicalKeys, state \in ElementStates, ret \in BOOLEAN, camExit \in BOOLEAN :
         /\ lastEvent' = Event("KeyboardInput", key, state,
                               IF camExit THEN "CameraExit" ELSE "", ret)
         /\ IF HandlesEvents(renderer)
            THEN /\ calls' = KeyboardCalls(key, state, ret, renderer.id)
                 /\ exiting' = (exiting \/ (key # Unidentified /\ camExit))
            ELSE /\ calls' = <<>>
                 /\ UNCHANGED exiting
    /\ UNCHANGED <<renderer, live, loopState, winSize, resumes, closeHandled>>

\* every other WindowEvent: _ => ()
OtherWindowEvent ==
    /\ Delivers(loopState)
    /\ lastEvent' = Event("OtherWindowEvent", 0, 0, "", FALSE)
    /\ calls' = <<>>
    /\ UNCHANGED <<renderer, live, exiting, loopState, winSize, resumes, closeHandled>>

(***************************************************************************)
(* AppState::device_event                                                  *)
(***************************************************************************)
\* variant: mouse motion also asks for a redraw
MouseCallsWithRedraw(dx, dy) ==
    << Call("handle_mouse", dx, dy), Call("request_redraw", 0, 0) >>

MouseCalls(dx, dy) == << Call("handle_mouse", dx, dy) >>

\* DeviceEvent::MouseMotion { delta }
MouseMotion ==
    /\ Delivers(loopState)
    /\ \E dx \in Deltas, dy \in Deltas :
         /\ lastEvent' = Event("MouseMotion", dx, dy, "", FALSE)
         /\ calls' = IF HandlesEvents(renderer) THEN MouseCalls(dx, dy) ELSE <<>>
    /\ UNCHANGED <<renderer, live, exiting, loopState, winSize, resumes, closeHandled>>

\* every other DeviceEvent: _ => {}
OtherDeviceEvent ==
    /\ Delivers(loopState)
    /\ lastEvent' = Event("OtherDeviceEvent", 0, 0, "", FALSE)
    /\ calls' = <<>>
    /\ UNCHANGED <<renderer, live, exiting, loopState, winSize, resumes, closeHandled>>

(***************************************************************************)
(* The platform's event loop: once exit() was called it returns, after     *)
(* delivering the events it had already collected                          *)
(***************************************************************************)
LoopExit ==
    /\ loopState = "running"
    /\ exiting
    /\ loopState' = "stopped"
    /\ UNCHANGED <<renderer, live, exiting, winSize, resumes, calls, lastEvent, closeHandled>>

AppNext ==
    \/ Resumed
    \/ Suspended
    \/ CloseRequested
    \/ RedrawRequested
    \/ KeyboardInput
    \/ OtherWindowEvent
    \/ MouseMotion
    \/ OtherDeviceEvent
    \/ LoopExit

(***************************************************************************)
(* CubeTexture::from_files                                                 *)
(***************************************************************************)
\* a cube map has 6 faces
NumFaces == 6
\* from_files is given 0..MaxFiles paths
MaxFiles == 7

\* The image files on disk and what image::open(..).to_rgba8() yields for
\* each: the dimensions and the pixel buffer (px names its content), or a
\* decode failure
Paths == {"a.png", "b.png", "wide.png", "tall.png", "bad.png"}
Image(w, h, px) == [ok |-> TRUE, w |-> w, h |-> h, px |-> px]
NoImage == [ok |-> FALSE, w |-> 0, h |-> 0, px |-> 0]
Decode(path) ==
    CASE path = "a.png"    -> Image(1, 1, 1)
      [] path = "b.png"    -> Image(1, 1, 2)
      [] path = "wide.png" -> Image(2, 1, 3)
      [] path = "tall.png" -> Image(1, 2, 4)
      [] OTHER             -> NoImage

\* the panic messages of from_files
CountMessage == "Cube maps must contain exactly 6 textures."
DecodeMessage == "Failed to load image"
DimensionMessage == "All cubemap faces must be same dimensions"

\* RgbaImage::dimensions
Dimensions(img) == <<img.w, img.h>>

VARIABLES
    files,       \* the paths from_files was called with
    pc,          \* where from_files is: "idle", "called", "decoding", "joined",
                 \* "uploading", "done", "failed"
    taskState,   \* per decode task: "todo", "done", "panicked"
    outOfOrder,  \* some task completed while a task of a lower index had not
    rgbas,       \* the collected Vec<RgbaImage>, slot by slot
    texture,     \* the texture create_texture returned
    layers,      \* per array layer, the pixel content written to it
    writes,      \* per array layer, the number of write_texture calls on it
    nextFace,    \* the upload loop's index i
    error        \* the panic message from_files ended with

cubeVars == <<files, pc, taskState, outOfOrder, rgbas, texture, layers, writes,
              nextFace, error>>

NoTexture == [exists |-> FALSE, w |-> 0, h |-> 0, depth |-> 0, view |-> FALSE]
LayerIds == 0..(IF MaxFiles > NumFaces THEN MaxFiles ELSE NumFaces)

CubeIdle ==
    /\ files = <<>>
    /\ pc = "idle"
    /\ taskState = <<>>
    /\ outOfOrder = FALSE
    /\ rgbas = <<>>
    /\ texture = NoTexture
    /\ layers = [z \in LayerIds |-> 0]
    /\ writes = [z \in LayerIds |-> 0]
    /\ nextFace = 0
    /\ error = ""

\* The paths a call with n paths draws from. A call with a wrong count ends
\* before any path is opened, so one good and one bad file stand for all there.
PathsFor(n) == IF n = NumFaces THEN Paths ELSE {"a.png", "bad.png"}

\* from_files has been called with some paths and has not run yet
CubeInit ==
    /\ files \in UNION { [1..n -> PathsFor(n)] : n \in 0..MaxFiles }
    /\ pc = "called"
    /\ taskState = <<>>
    /\ outOfOrder = FALSE
    /\ rgbas = <<>>
    /\ texture = NoTexture
    /\ layers = [z \in LayerIds |-> 0]
    /\ writes = [z \in LayerIds |-> 0]
    /\ nextFace = 0
    /\ error = ""

\* variant: the count check accepts more than 6 paths
CountOkAtLeast(n) == n >= NumFaces

\* assert_eq!(files.len(), 6, ..)
CountOk(n) == n = NumFaces

\* the assertion, then par_iter() hands one decode task per path to the pool
CheckCount ==
    /\ pc = "called"
    /\ IF CountOk(Len(files))
       THEN /\ pc' = "decoding"
            /\ taskState' = [i \in 1..Len(files) |-> "todo"]
            /\ rgbas' = [i \in 1..Len(files) |-> NoImage]
            /\ UNCHANGED error
       ELSE /\ pc' = "failed"
            /\ error' = CountMessage
            /\ UNCHANGED <<taskState, rgbas>>
    /\ UNCHANGED <<files, outOfOrder, texture, layers, writes, nextFace>>

\* variant: collect() appends the results in the order the tasks complete
CollectSlotByCompletion(i, ts) ==
    Cardinality({ j \in DOMAIN ts : ts[j] = "done" }) + 1

\* collect() of an indexed parallel iterator: task i fills slot i
CollectSlot(i, ts) == i

\* one decode task runs: image::open(filename).expect(..).to_rgba8()
DecodeTask(i) ==
    /\ pc = "decoding"
    /\ i \in DOMAIN taskState
    /\ taskState[i] = "todo"
    /\ LET img == Decode(files[i]) IN
         IF img.ok
         THEN /\ taskState' = [taskState EXCEPT ![i] = "done"]
              /\ rgbas' = [rgbas EXCEPT ![CollectSlot(i, taskState)] = img]
         ELSE /\ taskState' = [taskState EXCEPT ![i] = "panicked"]
              /\ UNCHANGED rgbas
    /\ outOfOrder' = (outOfOrder \/ \E j \in 1..(i - 1) : taskState[j] = "todo")
    /\ UNCHANGED <<files, pc, texture, layers, writes, nextFace, error>>

\* variant: the caller goes on as soon as one task has completed
SomeDecoded(ts) == \E i \in DOMAIN ts : ts[i] = "done"

\* every task returned an image: no .expect() panicked
AllDecoded(ts) == \A i \in DOMAIN ts : ts[i] = "done"

\* collect() returns once every task has completed
Join ==
    /\ pc = "decoding"
    /\ AllDecoded(taskState)
    /\ pc' = "joined"
    /\ UNCHANGED <<files, taskState, outOfOrder, rgbas, texture, layers, writes,
                   nextFace, error>>

\* a task's panic is resumed in the caller; tasks the pool had not started
\* may never run
JoinPanic ==
    /\ pc = "decoding"
    /\ \E i \in DOMAIN taskState : taskState[i] = "panicked"
    /\ pc' = "failed"
    /\ error' = DecodeMessage
    /\ UNCHANGED <<files, taskState, outOfOrder, rgbas, texture, layers, writes,
                   nextFace>>

\* variant: the loop compares widths only
SameDimensionsWidthOnly(imgs) ==
    \A k \in 2..Len(imgs) : imgs[1].w = imgs[k].w

\* for rgba in &rgbas[1..] { assert_eq!(first_dim, rgba.dimensions(), ..) }
SameDimensions(imgs) ==
    \A k \in 2..Len(imgs) : Dimensions(imgs[1]) = Dimensions(imgs[k])

\* the dimension assertions, then device.create_texture with 6 layers
CheckDimensionsAndCreate ==
    /\ pc = "joined"
    /\ IF SameDimensions(rgbas)
       THEN /\ pc' = "uploading"
            /\ texture' = [exists |-> TRUE, w |-> rgbas[1].w, h |-> rgbas[1].h,
                           depth |-> NumFaces, view |-> FALSE]
            /\ UNCHANGED error
       ELSE /\ pc' = "failed"
            /\ error' = DimensionMessage
            /\ UNCHANGED texture
    /\ UNCHANGED <<files, taskState, outOfOrder, rgbas, layers, writes, nextFace>>

\* origin.z of the i-th write_texture (i counts from 0)
OriginZ(i) == i

\* one iteration of for (i, rgba) in rgbas.iter().enumerate()
WriteTexture ==
    /\ pc = "uploading"
    /\ nextFace < Len(rgbas)
    /\ layers' = [layers EXCEPT ![OriginZ(nextFace)] = rgbas[nextFace + 1].px]
    /\ writes' = [writes EXCEPT ![OriginZ(nextFace)] = @ + 1]
    /\ nextFace' = nextFace + 1
    /\ UNCHANGED <<files, pc, taskState, outOfOrder, rgbas, texture, error>>

\* the cube view and the sampler; from_files returns
Finish ==
    /\ pc = "uploading"
    /\ nextFace = Len(rgbas)
    /\ pc' = "done"
    /\ texture' = [texture EXCEPT !.view = TRUE]
    /\ UNCHANGED <<files, taskState, outOfOrder, rgbas, layers, writes, nextFace, error>>

CubeNext ==
    \/ CheckCount
    \/ \E i \in 1..MaxFiles : DecodeTask(i)
    \/ Join
    \/ JoinPanic
    \/ CheckDimensionsAndCreate
    \/ WriteTexture
    \/ Finish

(***************************************************************************)
(* CubeTexture::new_shadow_map and CubeTexture::create_view_from_face      *)
(***************************************************************************)
\* shadow maps are created for 0..MaxLights lights
MaxLights == 4
\* with a resolution in 0..MaxResolution
MaxResolution == 2

\* The layer arithmetic is u32 arithmetic. It wraps (or panics, in a debug
\* build) only from 6 * 715827883 on, far above the number of array layers a
\* device offers, so for the lights modelled here it is plain arithmetic.

VARIABLES
    atlas,      \* the CubeTexture new_shadow_map returned last
    lastView,   \* the view create_view_from_face returned last on that atlas
    prevView    \* the view it returned before that one

atlasVars == <<atlas, lastView, prevView>>

NoAtlas == [exists |-> FALSE, resolution |-> 0, numLights |-> 0,
            width |-> 0, height |-> 0, depth |-> 0, viewLayers |-> 0]
NoView == [exists |-> FALSE, light |-> 0, face |-> 0, base |-> 0, count |-> 0]

AtlasInit ==
    /\ atlas = NoAtlas
    /\ lastView = NoView
    /\ prevView = NoView

\* variant: one layer per light
ShadowLayersPerLight(numLights) == numLights

\* depth_or_array_layers: 6 * num_lights, and array_layer_count: Some(6 * num_lights)
ShadowLayers(numLights) == NumFaces * numLights

\* new_shadow_map(device, resolution, num_lights, label): the function checks
\* neither argument and returns Self, not a Result
NewShadowMap ==
    \E resolution \in 0..MaxResolution, numLights \in 0..MaxLights :
        /\ atlas' = [exists |-> TRUE, resolution |-> resolution,
                     numLights |-> numLights,
                     width |-> resolution, height |-> resolution,
                     depth |-> ShadowLayers(numLights),
                     viewLayers |-> ShadowLayers(numLights)]
        /\ lastView' = NoView
        /\ prevView' = NoView

\* variant: a stride of 4 faces per light
BaseArrayLayerStride4(lightIndex, faceIndex) == 4 * lightIndex + faceIndex

\* base_array_layer: 6 * light_index + face_index
BaseArrayLayer(lightIndex, faceIndex) == NumFaces * lightIndex + faceIndex

\* array_layer_count: Some(1)
FaceLayerCount == 1

\* create_view_from_face(&self, light_index, face_index, label): the indices
\* are not validated, so out-of-range ones are among the inputs
CreateViewFromFace ==
    /\ atlas.exists
    /\ \E lightIndex \in 0..MaxLights, faceIndex \in 0..NumFaces :
         lastView' = [exists |-> TRUE, light |-> lightIndex, face |-> faceIndex,
                      base |-> BaseArrayLayer(lightIndex, faceIndex),
                      count |-> FaceLayerCount]
    /\ prevView' = lastView
    /\ UNCHANGED atlas

AtlasNext ==
    \/ NewShadowMap
    \/ CreateViewFromFace

(***************************************************************************)
(* Specifications                                                          *)
(***************************************************************************)
vars == <<appVars, cubeVars, atlasVars>>

\* the event loop driving AppState
Init == AppInit /\ CubeIdle /\ AtlasInit
Next ==
    \/ ResumedBegin /\ UNCHANGED <<cubeVars, atlasVars>>
    \/ ResumedInit /\ UNCHANGED <<cubeVars, atlasVars>>
    \/ ResumedStore /\ UNCHANGED <<cubeVars, atlasVars>>
    \/ Suspended /\ UNCHANGED <<cubeVars, atlasVars>>
    \/ CloseRequested /\ UNCHANGED <<cubeVars, atlasVars>>
    \/ RedrawRequested /\ UNCHANGED <<cubeVars, atlasVars>>
    \/ KeyboardInput /\ UNCHANGED <<cubeVars, atlasVars>>
    \/ OtherWindowEvent /\ UNCHANGED <<cubeVars, atlasVars>>
    \/ MouseMotion /\ UNCHANGED <<cubeVars, atlasVars>>
    \/ OtherDeviceEvent /\ UNCHANGED <<cubeVars, atlasVars>>
    \/ LoopExit /\ UNCHANGED <<cubeVars, atlasVars>>
Spec == Init /\ [][Next]_vars

\* one call of CubeTexture::from_files
CubeSpecInit == AppInit /\ CubeInit /\ AtlasInit
CubeSpecNext ==
    \/ CheckCount /\ UNCHANGED <<appVars, atlasVars>>
    \/ (\E i \in 1..MaxFiles : DecodeTask(i)) /\ UNCHANGED <<appVars, atlasVars>>
    \/ Join /\ UNCHANGED <<appVars, atlasVars>>
    \/ JoinPanic /\ UNCHANGED <<appVars, atlasVars>>
    \/ CheckDimensionsAndCreate /\ UNCHANGED <<appVars, atlasVars>>
    \/ WriteTexture /\ UNCHANGED <<appVars, atlasVars>>
    \/ Finish /\ UNCHANGED <<appVars, atlasVars>>
SpecCube == CubeSpecInit /\ [][CubeSpecNext]_vars

\* shadow atlases and the face views made from them
AtlasSpecInit == AppInit /\ CubeIdle /\ AtlasInit
AtlasSpecNext ==
    \/ NewShadowMap /\ UNCHANGED <<appVars, cubeVars>>
    \/ CreateViewFromFace /\ UNCHANGED <<appVars, cubeVars>>
SpecAtlas == AtlasSpecInit /\ [][AtlasSpecNext]_vars

(***************************************************************************)
(* Properties of the frame/input controller                                *)
(***************************************************************************)
WindowOrDeviceKinds ==
    {"CloseRequested", "RedrawRequested", "KeyboardInput", "OtherWindowEvent",
     "MouseMotion", "OtherDeviceEvent"}

\* the operations of calls made on a collaborator by the handler that ran last
CallOps == { calls[i][1] : i \in 1..Len(calls) }

\* the handler that ran last left the controller's own state as it found it
ControllerUntouched ==
    /\ renderer = lastEvent.rendererBefore
    /\ exiting = lastEvent.exitingBefore
    /\ closeHandled = lastEvent.closedBefore

\* C1: a redraw handled with the renderer present whose render() returns Lost
\* or Outdated makes exactly the calls update, render, resize, the resize with
\* the window size read after the failure; it renders once, does not signal
\* exit, and the renderer stays present.
C1_LostOrOutdatedResizesOnce ==
    ( /\ lastEvent.kind = "RedrawRequested"
      /\ lastEvent.present
      /\ lastEvent.result \in {"Lost", "Outdated"} )
    => /\ calls = << Call("update", 0, 0), Call("render", 0, 0),
                     Call("resize", winSize[1], winSize[2]) >>
       /\ ControllerUntouched
       /\ renderer.present

\* C1 happens: render() failed with Lost after the window's size had changed
C1_Witness ==
    /\ lastEvent.kind = "RedrawRequested"
    /\ lastEvent.present
    /\ lastEvent.result = "Lost"
    /\ winSize # lastEvent.sizeBefore
    /\ Len(calls) = 3
    /\ calls[3][1] = "resize"

\* C2: once a CloseRequested was handled with the renderer present the loop
\* is signalled to exit, and no window or device event delivered afterwards
\* makes an update, render, resize, camera or redraw-request call.
C2_NoEventProcessedAfterClose ==
    /\ closeHandled => exiting
    /\ ( lastEvent.closedBefore /\ lastEvent.kind \in WindowOrDeviceKinds )
       => CallOps \cap {"update", "render", "resize", "handle_key_held",
                        "handle_mouse", "request_redraw"} = {}

\* C3: a keyboard event with a physical key code, handled with the renderer
\* present, calls the camera's key handler once with that code and state, then
\* requests a redraw once iff the camera returned true; no update, no render.
C3_KeyForwardedRedrawIffCameraSaysSo ==
    ( /\ lastEvent.kind = "KeyboardInput"
      /\ lastEvent.present
      /\ lastEvent.a # Unidentified )
    => calls = << Call("handle_key_held", lastEvent.a, lastEvent.b) >> \o
               ( IF lastEvent.ret
                 THEN << Call("request_redraw", lastEvent.rendererBefore.id, 0) >>
                 ELSE <<>> )

\* C3 happens: the camera returned false for a released key and no redraw was
\* requested
C3_Witness ==
    /\ lastEvent.kind = "KeyboardInput"
    /\ lastEvent.present
    /\ lastEvent.a = MaxCode
    /\ lastEvent.b = 0
    /\ ~lastEvent.ret
    /\ Len(calls) = 1

\* C4: a mouse-motion event handled with the renderer present passes its delta
\* unchanged to the camera's mouse handler once and does nothing else.
C4_MouseDeltaForwardedOnly ==
    ( lastEvent.kind = "MouseMotion" /\ lastEvent.present )
    => /\ calls = << Call("handle_mouse", lastEvent.a, lastEvent.b) >>
       /\ ControllerUntouched
       /\ winSize = lastEvent.sizeBefore

\* C4 happens: a delta with two different components was forwarded
C4_Witness ==
    /\ lastEvent.kind = "MouseMotion"
    /\ lastEvent.present
    /\ lastEvent.a = MaxDelta
    /\ lastEvent.b = -MaxDelta
    /\ Len(calls) = 1

\* C5: while the renderer is absent every window and device event is ignored:
\* no call, no exit signal, no fault, controller state unchanged.
C5_EventsIgnoredWhileAbsent ==
    ( lastEvent.kind \in WindowOrDeviceKinds /\ ~lastEvent.present )
    => /\ calls = <<>>
       /\ ControllerUntouched
       /\ ~renderer.present
       /\ ~exiting
       /\ winSize = lastEvent.sizeBefore
       /\ loopState = "running"

\* C5 happens: a close request arrived before any renderer existed
C5_Witness ==
    /\ lastEvent.kind = "CloseRequested"
    /\ ~lastEvent.present
    /\ calls = <<>>

\* C10: a redraw handled with the renderer present whose render() fails with
\* an error other than Lost or Outdated logs it and does nothing else; the
\* renderer stays present and the loop goes on.
C10_OtherRenderErrorOnlyLogged ==
    ( /\ lastEvent.kind = "RedrawRequested"
      /\ lastEvent.present
      /\ lastEvent.result \notin {"Ok", "Lost", "Outdated"} )
    => /\ calls = << Call("update", 0, 0), Call("render", 0, 0),
                     Call("log_error", 0, 0) >>
       /\ ControllerUntouched
       /\ renderer.present
       /\ (loopState = "running" \/ exiting)

\* C10 happens: render() ran out of memory and the loop is still running
C10_Witness ==
    /\ lastEvent.kind = "RedrawRequested"
    /\ lastEvent.present
    /\ lastEvent.result = "OutOfMemory"
    /\ "log_error" \in CallOps
    /\ loopState = "running"

\* C11: in every state after a resume, also during a second resume, at most
\* one Renderer instance exists.
C11_AtMostOneRenderer == Cardinality(live) <= 1

\* C12: when renderer initialization fails in a resume the error is logged
\* and the process exits with status 1; no redraw is requested, and the failed
\* resume stays the last thing handled.
C12_InitFailureTerminates ==
    /\ ( lastEvent.kind = "Resumed" /\ lastEvent.result = "Err" )
       => /\ loopState = "exit1"
          /\ calls = << Call("create_window", lastEvent.a, 0),
                        Call("Renderer::new", lastEvent.a, 0),
                        Call("log_error", 0, 0), Call("process_exit", 1, 0) >>
          /\ ControllerUntouched
    /\ loopState = "exit1"
       => lastEvent.kind = "Resumed" /\ lastEvent.result = "Err"

\* C12 happens: the second resume's initialization failed
C12_Witness ==
    /\ loopState = "exit1"
    /\ resumes = 2
    /\ lastEvent.present
    /\ "process_exit" \in CallOps

\* C13: from the start of renderer initialization to its completion no redraw
\* is requested and no window or device event is handled; a resume that
\* succeeded stored the renderer and then requested one redraw, on the window
\* it created.
C13_InitBlocksThenStoreThenRedraw ==
    /\ loopState \in {"initializing", "built"}
       => /\ lastEvent.kind = "Resumed"
          /\ lastEvent.a = resumes
          /\ calls = << Call("create_window", resumes, 0),
                        Call("Renderer::new", resumes, 0) >>
          /\ ControllerUntouched
    /\ ( lastEvent.kind = "Resumed" /\ lastEvent.result = "Ok" /\ loopState # "built" )
       => /\ calls = << Call("create_window", lastEvent.a, 0),
                        Call("Renderer::new", lastEvent.a, 0),
                        Call("store_renderer", lastEvent.a, 0),
                        Call("request_redraw", lastEvent.a, 0) >>
          /\ renderer = Some(lastEvent.a)

\* C13 happens: a second resume succeeded over an earlier renderer
C13_Witness ==
    /\ lastEvent.kind = "Resumed"
    /\ lastEvent.result = "Ok"
    /\ lastEvent.present
    /\ loopState = "running"
    /\ renderer.id = 2
    /\ Len(calls) = 4

\* C17: a redraw handled with the renderer present calls update() once and
\* then render() once, whatever render() returns; after a successful render
\* nothing else happens in the event.
C17_UpdateThenRenderOnce ==
    ( lastEvent.kind = "RedrawRequested" /\ lastEvent.present )
    => /\ Len(calls) >= 2
       /\ calls[1] = Call("update", 0, 0)
       /\ calls[2] = Call("render", 0, 0)
       /\ \A i \in 3..Len(calls) : calls[i][1] \notin {"update", "render"}
       /\ lastEvent.result = "Ok"
          => /\ Len(calls) = 2
             /\ ControllerUntouched
             /\ renderer.present

\* C17 happens: a frame was rendered successfully
C17_Witness ==
    /\ lastEvent.kind = "RedrawRequested"
    /\ lastEvent.present
    /\ lastEvent.result = "Ok"
    /\ CallOps = {"update", "render"}

\* the number of redraw requests the handler that ran last has made
RedrawRequests ==
    Cardinality({ i \in 1..Len(calls) : calls[i][1] = "request_redraw" })

\* C18: the controller requests a redraw once at the end of a successful
\* resume and once in a keyboard event for which the camera returned true,
\* and nowhere else; the redraw handler never requests one.
C18_RedrawRequestedOnlyByResumeAndKeys ==
    RedrawRequests =
        IF lastEvent.kind = "Resumed"
        THEN ( IF lastEvent.result = "Ok" /\ loopState # "built" THEN 1 ELSE 0 )
        ELSE IF /\ lastEvent.kind = "KeyboardInput"
                /\ lastEvent.present
                /\ lastEvent.a # Unidentified
                /\ lastEvent.ret
             THEN 1
             ELSE 0

\* C18 happens: a frame was rendered and no redraw was requested
C18_Witness ==
    /\ lastEvent.kind = "RedrawRequested"
    /\ lastEvent.present
    /\ lastEvent.result \in {"Ok", "Outdated"}
    /\ Len(calls) >= 2
    /\ RedrawRequests = 0

\* C19: the renderer starts absent; once present it is present in every later
\* state, and the only step that changes it is a resume storing a new one.
C19_RendererStaysPresent ==
    /\ ~renderer.present
    /\ [][ /\ renderer.present => renderer'.present
           /\ renderer' # renderer
              => /\ loopState = "built"
                 /\ renderer' = Some(resumes) ]_vars

\* C19 happens: the second resume's renderer outlived a render error
C19_Witness ==
    /\ renderer = Some(2)
    /\ lastEvent.kind = "RedrawRequested"
    /\ lastEvent.result = "Other"
    /\ Len(calls) = 3

(***************************************************************************)
(* Properties of the cube texture manager                                  *)
(***************************************************************************)
FaceIds == 0..(NumFaces - 1)

\* nothing was created on the device and nothing was uploaded
NothingCreated ==
    /\ texture = NoTexture
    /\ \A z \in LayerIds : writes[z] = 0 /\ layers[z] = 0

\* every given file decodes
AllDecodable == \A i \in DOMAIN files : Decode(files[i]).ok

\* two of the given files decode to images of different width or height
SomeTwoDiffer ==
    \E i, j \in DOMAIN files :
        Dimensions(Decode(files[i])) # Dimensions(Decode(files[j]))

\* C6: loading 6 files of equal dimensions writes, for every i in 0..5, the
\* decoded pixels of file i to layer i, each layer once, whatever the order in
\* which the decode tasks complete: a completed task's image sits in the slot
\* of its index, and every layer written so far holds its own file's pixels.
C6_LayerHoldsItsFile ==
    /\ \A i \in DOMAIN taskState :
         taskState[i] = "done" => rgbas[i] = Decode(files[i])
    /\ pc \in {"uploading", "done"} =>
         /\ \A z \in FaceIds : z < nextFace =>
              layers[z] = Decode(files[z + 1]).px /\ writes[z] = 1
         /\ \A z \in LayerIds : z >= nextFace => writes[z] = 0
    /\ pc = "done" => nextFace = NumFaces

\* C6 happens: a load finished whose tasks completed out of index order and
\* whose first two faces have different pixels
C6_Witness ==
    /\ pc = "done"
    /\ outOfOrder
    /\ files[1] = "b.png"
    /\ files[2] = "a.png"
    /\ layers[0] = 2
    /\ layers[1] = 1

\* C8: a load given a number of paths other than 6 fails with the count error
\* before any image is decoded, any texture created or any layer uploaded.
C8_WrongCountFailsFirst ==
    ( pc # "called" /\ Len(files) # NumFaces )
    => /\ pc = "failed"
       /\ error = CountMessage
       /\ taskState = <<>>
       /\ rgbas = <<>>
       /\ NothingCreated

\* C8 happens: a load given 5 decodable paths failed
C8_Witness ==
    /\ Len(files) = NumFaces - 1
    /\ AllDecodable
    /\ pc = "failed"
    /\ error = CountMessage

\* C9: a load of 6 decodable files two of which differ in width or height
\* never creates a texture nor uploads a layer, and ends with the dimension
\* error; a load that succeeds had 6 images of identical dimensions.
C9_DimensionMismatchFails ==
    /\ ( Len(files) = NumFaces /\ AllDecodable /\ SomeTwoDiffer )
       => /\ NothingCreated
          /\ \/ pc \in {"called", "decoding", "joined"}
             \/ pc = "failed" /\ error = DimensionMessage
    /\ pc = "done" => ~SomeTwoDiffer

\* C9 happens: only the last face differs, and only in height
C9_Witness ==
    /\ Len(files) = NumFaces
    /\ \A i \in 1..(NumFaces - 1) : files[i] \in {"a.png", "b.png"}
    /\ files[NumFaces] = "tall.png"
    /\ pc = "failed"
    /\ error = DimensionMessage

\* C16: the texture is created and layers are uploaded only after all 6
\* decode tasks have completed; a load of 6 files one of which does not decode
\* creates no texture, uploads no layer and ends with the decode error,
\* whichever face it is and in whatever order the other tasks complete.
C16_UploadAfterAllDecodes ==
    /\ ( texture.exists \/ \E z \in LayerIds : writes[z] > 0 )
       => /\ DOMAIN taskState = 1..NumFaces
          /\ \A i \in 1..NumFaces : taskState[i] = "done"
    /\ ( Len(files) = NumFaces /\ ~AllDecodable )
       => /\ NothingCreated
          /\ \/ pc \in {"called", "decoding"}
             \/ pc = "failed" /\ error = DecodeMessage

\* C16 happens: the last face failed to decode after the five others had
\* completed, out of index order
C16_Witness ==
    /\ pc = "failed"
    /\ error = DecodeMessage
    /\ files[NumFaces] = "bad.png"
    /\ \A i \in 1..(NumFaces - 1) : taskState[i] = "done"
    /\ taskState[NumFaces] = "panicked"
    /\ outOfOrder

\* C14: creating a shadow atlas with resolution 0 fails for every numLights
\* and returns no atlas.
C14_ZeroResolutionRejected == ~( atlas.exists /\ atlas.resolution = 0 )

\* C15: a shadow atlas of resolution r > 0 for n lights has a texture of r by
\* r texels with 6*n array layers and a cube-array view over the same 6*n
\* layers; 4 lights give 24 layers, 0 lights are accepted and give 0 layers.
C15_AtlasShape ==
    ( atlas.exists /\ atlas.resolution > 0 )
    => /\ atlas.width = atlas.resolution
       /\ atlas.height = atlas.resolution
       /\ atlas.depth = 6 * atlas.numLights
       /\ atlas.viewLayers = 6 * atlas.numLights
       /\ atlas.numLights = 4 => atlas.depth = 24
       /\ atlas.numLights = 0 => atlas.depth = 0

\* C15 happens: an atlas for 0 lights was created
C15_Witness ==
    /\ atlas.exists
    /\ atlas.resolution = MaxResolution
    /\ atlas.numLights = 0
    /\ atlas.depth = 0

\* the view was made with indices inside the atlas it was made from
InRange(v) ==
    /\ v.exists
    /\ atlas.numLights >= 1
    /\ v.light < atlas.numLights
    /\ v.face < NumFaces

\* C7: for numLights >= 1, lightIndex < numLights and faceIndex < 6 the face
\* view starts at layer 6*lightIndex + faceIndex and spans one layer, that
\* layer is below 6*numLights, and two distinct in-range pairs never get the
\* same layer.
C7_FaceViewLayer ==
    /\ InRange(lastView) =>
         /\ lastView.base = 6 * lastView.light + lastView.face
         /\ lastView.count = 1
         /\ lastView.base < 6 * atlas.numLights
         /\ lastView.base < atlas.depth
    /\ ( /\ InRange(lastView)
         /\ InRange(prevView)
         /\ <<lastView.light, lastView.face>> # <<prevView.light, prevView.face>> )
       => lastView.base # prevView.base

\* C7 happens: the last face of light 0 and then the first face of light 1
C7_Witness ==
    /\ InRange(prevView)
    /\ InRange(lastView)
    /\ prevView.light = 0 /\ prevView.face = NumFaces - 1
    /\ lastView.light = 1 /\ lastView.face = 0
    /\ lastView.base = prevView.base + 1
====
